---------------------------- MODULE Spec2Model ----------------------------
(***************************************************************************)
(* Model of the promotional-rewards backend (vouchers and campaigns).      *)
(* The repository holds four near-duplicate servers over the same REST     *)
(* surface: PostgreSQL (src/server.js 1-323), sqlite3 (324-636),           *)
(* better-sqlite3 (637-925) and MongoDB (src/unnamed/part_000).  A         *)
(* behaviour of the model is one run of one of them: `variant` is chosen   *)
(* in Init and never changes.                                              *)
(*                                                                         *)
(* Every `await` on the store is a yield point: a handler of the pg,       *)
(* sqlite3 and mongo servers is one action per store call (the store call  *)
(* together with the synchronous code that follows it, up to the next      *)
(* await or the response).  The better-sqlite3 server calls the store      *)
(* synchronously, so there a whole handler is a single action.             *)
(*                                                                         *)
(* Identifiers are taken from the id domain of the backend.  The store is  *)
(* reliable except in SpecFail, where any store call of POST /api/vouchers *)
(* may reject.                                                             *)
(***************************************************************************)
EXTENDS Integers, Naturals, Sequences, FiniteSets, TLC

\* ------------------------------------------------------------------ bounds
MaxCampaigns == 1      \* campaigns ever created in a run
MaxVouchers  == 2      \* vouchers ever inserted in a run
NumProcs     == 2      \* request handlers that may be in flight together
MaxQuantity  == 1      \* largest campaign quantity an admin submits
SeqQuantity  == 2      \* largest quantity of the sequential scenario
SeqCalls     == 4      \* calls of the sequential scenario
RaceCalls    == 5      \* concurrent calls of the stress scenario
RaceQuantity == 3      \* quantity of the campaign in the stress scenario
PoolQuantity == 2      \* largest quantity of the shared-content scenario
PoolCalls    == 4      \* calls of the shared-content scenario
MaxSpinDocs  == 3      \* spin configuration documents ever inserted in a run

\* ------------------------------------------------------------------ values
Variants   == {"pg", "sqlite3", "bsqlite", "mongo"}
\* fault injection: the better-sqlite3 handler awaits its store calls too
AsyncSql_WithBsqlite == {"pg", "sqlite3", "bsqlite"}
\* the SQL servers whose handlers await every store call
AsyncSql   == {"pg", "sqlite3"}
Null       == "null"                \* JS null / SQL NULL
Contents   == {"a", "b"}            \* campaign content / voucher value strings
Quantities == (-1)..MaxQuantity     \* req.body.quantity is not validated
CampaignStatuses == {"active", "inactive"}
Timestamps == {"t1", "t2"}          \* ISO timestamps
NoId       == 0                     \* an absent (falsy) campaignId
CampIds    == 1..(MaxCampaigns + 1) \* ids a caller may name (one never stored)
VoucherIds == 1..(MaxVouchers + 1)  \* ids a caller may name (one never stored)
Statuses   == {"Pending", "Issued", "Void"}
Usernames  == {"alice", "bob", "carol"}  \* req.query.username (carol holds none)
SpinIds    == {1, 2}                \* spin configuration ids an admin may start

\* request bodies of POST /api/vouchers: {username, value, prize, status, claimedAt}
Bodies ==
  { [username |-> "alice", value |-> "a", prize |-> "p1", status |-> "Pending", claimedAt |-> Null],
    [username |-> "bob",   value |-> "b", prize |-> "p2", status |-> "Issued",  claimedAt |-> "t1"] }

NoBody == [username |-> "", value |-> "", prize |-> "", status |-> "", claimedAt |-> Null]

VARIABLES
  variant,          \* which server is running
  campaigns,        \* voucher_campaigns: id -> [content, quantity, status]
  nextCampaignId,   \* SERIAL / AUTOINCREMENT / fresh ObjectId
  vouchers,         \* vouchers: id -> [username, value, prize, status, claimedAt]
  nextVoucherId,
  pc,               \* per handler: where it is suspended
  req,              \* per handler: the request it serves
  countRow,         \* per handler: local `countRow.count` / `count`
  campaign,         \* per handler: local `campaign` (<<>> is undefined / null)
  out,              \* the response sent in the last step, with its request
                    \* (NoOut when the last step sent none)
  attempts,         \* calls made so far in the sequential and stress scenarios
  spinActive,       \* spin_wheel_active (mongo): activeSpinConfigId per document,
                    \* in insertion order
  spinConfig,       \* spin_wheel_config (mongo): id -> [label, status]
  nextSpinId        \* fresh ObjectId of spin_wheel_config

vars == <<variant, campaigns, nextCampaignId, vouchers, nextVoucherId,
          pc, req, countRow, campaign, out, attempts,
          spinActive, spinConfig, nextSpinId>>

store  == <<campaigns, nextCampaignId, vouchers, nextVoucherId>>
spin   == <<spinActive, spinConfig, nextSpinId>>

Procs == DOMAIN pc

\* ------------------------------------------------------------- responses
Resp(code, error, success, count) ==
  [code |-> code, error |-> error, success |-> success, count |-> count, rows |-> {},
   activeSpinConfigId |-> NoId]

NoResp            == Resp(0, "", "", -1)
RespSuccess       == Resp(200, "", "true", -1)
RespNoSuccess     == Resp(200, "", "false", -1)
RespOutOfStock    == Resp(400, "Out of stock", "", -1)
RespNotFound      == Resp(400, "Campaign not found", "", -1)
RespTypeError     == Resp(500, "Cannot read properties of undefined", "", -1)
RespCount(n)      == Resp(200, "", "", n)
\* res.status(404).json({ error: 'Campaign not found' })
RespCampaignGone  == Resp(404, "Campaign not found", "", -1)
\* catch (err) { res.status(500).json({ error: err.message }) }
RespStoreError(message) == Resp(500, message, "", -1)
\* res.json(rows)
RespRows(rows)    == [Resp(200, "", "", -1) EXCEPT !.rows = rows]
\* res.json({ activeSpinConfigId, prizes })
RespSpinActive(id, prizes) ==
  [Resp(200, "", "", -1) EXCEPT !.rows = prizes, !.activeSpinConfigId = id]

\* -------------------------------------------------------------- requests
NoReq == [kind |-> "none", body |-> NoBody, campaignId |-> NoId, id |-> 0, status |-> ""]
PostReq(body, cid) == [kind |-> "post", body |-> body, campaignId |-> cid, id |-> 0, status |-> ""]
PutReq(id, status) == [kind |-> "put", body |-> NoBody, campaignId |-> NoId, id |-> id, status |-> status]
CountReq(cid)      == [kind |-> "count", body |-> NoBody, campaignId |-> cid, id |-> 0, status |-> ""]
CampaignReq        == [kind |-> "campaign", body |-> NoBody, campaignId |-> NoId, id |-> 0, status |-> ""]
MyReq(username)    == [kind |-> "my", body |-> [NoBody EXCEPT !.username = username],
                       campaignId |-> NoId, id |-> 0, status |-> ""]
DelCampaignReq(id) == [kind |-> "delcampaign", body |-> NoBody, campaignId |-> NoId, id |-> id, status |-> ""]
SpinStartReq(id)   == [kind |-> "spinstart", body |-> NoBody, campaignId |-> NoId, id |-> id, status |-> ""]
SpinReplaceReq(k)  == [kind |-> "spinreplace", body |-> NoBody, campaignId |-> NoId, id |-> k, status |-> ""]
SpinStartAllReq    == [kind |-> "spinstartall", body |-> NoBody, campaignId |-> NoId, id |-> 0, status |-> ""]
SpinActiveReq      == [kind |-> "spinactive", body |-> NoBody, campaignId |-> NoId, id |-> 0, status |-> ""]
SpinStopReq        == [kind |-> "spinstop", body |-> NoBody, campaignId |-> NoId, id |-> 0, status |-> ""]
DelVoucherReq(id)  == [kind |-> "delvoucher", body |-> NoBody, campaignId |-> NoId, id |-> id, status |-> ""]

NoOut == [req |-> NoReq, resp |-> NoResp]

\* ---------------------------------------------------------- store queries
\* fault injection: the campaign read only sees campaigns whose status is 'active'
GetCampaign_ActiveOnly(cs, cid) ==
  IF cid \in DOMAIN cs /\ cs[cid].status = "active" THEN <<cs[cid]>> ELSE <<>>

\* SELECT * FROM voucher_campaigns WHERE id = $1  (rows; rows[0] may be undefined)
\* voucher_campaigns.findOne({_id})
GetCampaign(cs, cid) == IF cid \in DOMAIN cs THEN <<cs[cid]>> ELSE <<>>

\* SELECT COUNT(*) FROM vouchers WHERE value = $1 / countDocuments({value})
CountByValue(vs, v) == Cardinality({i \in DOMAIN vs : vs[i].value = v})

\* fault injection: the count has lost its WHERE clause
CountForCampaign_AllVouchers(vs, cs, cid) == Cardinality(DOMAIN vs)

\* SELECT COUNT(*) FROM vouchers WHERE value = (SELECT content FROM
\* voucher_campaigns WHERE id = $1): the subquery is NULL for an unknown id and
\* `value = NULL` matches no row
CountForCampaign(vs, cs, cid) ==
  IF cid \in DOMAIN cs THEN CountByValue(vs, cs[cid].content) ELSE 0

\* fault injection: the check lets through a call that reads count == quantity
OutOfStock_OffByOne(count, quantity) == count > quantity

\* fault injection: only a count equal to the quantity is out of stock
OutOfStock_ExactlyFull(count, quantity) == count = quantity

\* count >= campaign.quantity
OutOfStock(count, quantity) == count >= quantity

\* fault injection: the insert drops the caller's claimedAt
VoucherRow_NoClaimedAt(body) ==
  [username |-> body.username, value |-> body.value, prize |-> body.prize,
   status |-> body.status, claimedAt |-> Null]

\* the row INSERT INTO vouchers (username, value, prize, status, claimedAt)
\* writes: the caller's fields as given
VoucherRow(body) ==
  [username |-> body.username, value |-> body.value, prize |-> body.prize,
   status |-> body.status, claimedAt |-> body.claimedAt]

InsertVoucher(body) ==
  /\ vouchers' = vouchers @@ (nextVoucherId :> VoucherRow(body))
  /\ nextVoucherId' = nextVoucherId + 1

\* vouchers stored plus inserts that handlers in flight may still make
Pending == Cardinality({p \in Procs : req[p].kind = "post"})
Room == nextVoucherId + Pending <= MaxVouchers

\* an idle handler takes a new request and suspends at its first store call
Accept(p, r, label) ==
  /\ pc[p] = "idle"
  /\ pc' = [pc EXCEPT ![p] = label]
  /\ req' = [req EXCEPT ![p] = r]
  /\ out' = NoOut
  /\ UNCHANGED <<countRow, campaign>>

\* res.json(...) / res.status(...).json(...): the handler ends; its locals die
Finish(p, r) ==
  /\ pc' = [pc EXCEPT ![p] = "idle"]
  /\ out' = [req |-> req[p], resp |-> r]
  /\ req' = [req EXCEPT ![p] = NoReq]
  /\ countRow' = [countRow EXCEPT ![p] = 0]
  /\ campaign' = [campaign EXCEPT ![p] = <<>>]

\* a handler that makes its store calls without suspending
Answer(r, rsp) == out' = [req |-> r, resp |-> rsp]

Goto(p, label) ==
  /\ pc' = [pc EXCEPT ![p] = label]
  /\ out' = NoOut
  /\ UNCHANGED req

\* --------------------------------------------------------------- Init
InitStore ==
  /\ campaigns = <<>>
  /\ nextCampaignId = 1
  /\ vouchers = <<>>
  /\ nextVoucherId = 1
  /\ spinActive = <<>>
  /\ spinConfig = <<>>
  /\ nextSpinId = 1

InitProcs(n) ==
  /\ pc = [p \in 1..n |-> "idle"]
  /\ req = [p \in 1..n |-> NoReq]
  /\ countRow = [p \in 1..n |-> 0]
  /\ campaign = [p \in 1..n |-> <<>>]
  /\ out = NoOut
  /\ attempts = 0

Init ==
  /\ variant \in Variants
  /\ InitStore
  /\ InitProcs(NumProcs)

\* ------------------------------------------- POST /api/admin/voucher-campaigns
CreateCampaign(content, quantity, status) ==
  /\ nextCampaignId <= MaxCampaigns
  /\ campaigns' = campaigns @@
        (nextCampaignId :> [content |-> content, quantity |-> quantity, status |-> status])
  /\ nextCampaignId' = nextCampaignId + 1
  /\ Answer(CampaignReq, RespSuccess)
  /\ UNCHANGED <<variant, spin, vouchers, nextVoucherId, pc, req, countRow, campaign>>

\* --------------------------------- DELETE /api/admin/voucher-campaigns/:id
\* DELETE FROM voucher_campaigns WHERE id = $1 / deleteOne({_id})
RemoveCampaign(cs, id) == [c \in DOMAIN cs \ {id} |-> cs[c]]

\* rows the DELETE removed: result.rowCount (pg), result.changes
\* (better-sqlite3), result.deletedCount (mongo)
Removed(cs, id) == IF id \in DOMAIN cs THEN 1 ELSE 0

\* fault injection: the DELETE cascades to the vouchers of the campaign's content
DeleteCampaignPg_Cascade(id) ==
  /\ variant = "pg"
  /\ campaigns' = RemoveCampaign(campaigns, id)
  /\ vouchers' = IF id \in DOMAIN campaigns
                   THEN [i \in {j \in DOMAIN vouchers :
                                  vouchers[j].value # campaigns[id].content} |-> vouchers[i]]
                   ELSE vouchers
  /\ Answer(DelCampaignReq(id),
            IF Removed(campaigns, id) > 0 THEN RespSuccess ELSE RespCampaignGone)
  /\ UNCHANGED <<variant, spin, nextCampaignId, nextVoucherId, pc, req, countRow, campaign>>

\* pg: if (result.rowCount > 0) success, else 404
DeleteCampaignPg(id) ==
  /\ variant = "pg"
  /\ campaigns' = RemoveCampaign(campaigns, id)
  /\ Answer(DelCampaignReq(id),
            IF Removed(campaigns, id) > 0 THEN RespSuccess ELSE RespCampaignGone)
  /\ UNCHANGED <<variant, spin, nextCampaignId, vouchers, nextVoucherId, pc, req, countRow, campaign>>

\* sqlite3: dbRun resolves the statement object (lastID, changes), which has no
\* rowCount; undefined > 0 is false, so the else branch answers 404 whether or
\* not a row was deleted
DeleteCampaignSqlite3(id) ==
  /\ variant = "sqlite3"
  /\ campaigns' = RemoveCampaign(campaigns, id)
  /\ Answer(DelCampaignReq(id), RespCampaignGone)
  /\ UNCHANGED <<variant, spin, nextCampaignId, vouchers, nextVoucherId, pc, req, countRow, campaign>>

\* better-sqlite3: if (result.changes > 0) success, else 404
DeleteCampaignSync(id) ==
  /\ variant = "bsqlite"
  /\ campaigns' = RemoveCampaign(campaigns, id)
  /\ Answer(DelCampaignReq(id),
            IF Removed(campaigns, id) > 0 THEN RespSuccess ELSE RespCampaignGone)
  /\ UNCHANGED <<variant, spin, nextCampaignId, vouchers, nextVoucherId, pc, req, countRow, campaign>>

\* mongo: res.json({ success: result.deletedCount > 0 })
DeleteCampaignMongo(id) ==
  /\ variant = "mongo"
  /\ campaigns' = RemoveCampaign(campaigns, id)
  /\ Answer(DelCampaignReq(id),
            IF Removed(campaigns, id) > 0 THEN RespSuccess ELSE RespNoSuccess)
  /\ UNCHANGED <<variant, spin, nextCampaignId, vouchers, nextVoucherId, pc, req, countRow, campaign>>

\* ------------------------------------------------------ POST /api/vouchers
\* pg and sqlite3: the handler starts; with a campaignId it issues the count
\* query, without one it issues the insert
PostVoucherStartSql(p, body, cid) ==
  /\ variant \in AsyncSql
  /\ Accept(p, PostReq(body, cid), IF cid # NoId THEN "pv_count" ELSE "pv_insert")
  /\ UNCHANGED <<variant, spin, store>>

\* const countRow = await dbGet('SELECT COUNT(*) ...')
PostVoucherCountSql(p) ==
  /\ variant \in AsyncSql
  /\ pc[p] = "pv_count"
  /\ countRow' = [countRow EXCEPT ![p] = CountForCampaign(vouchers, campaigns, req[p].campaignId)]
  /\ Goto(p, "pv_read")
  /\ UNCHANGED <<variant, spin, store, campaign>>

\* const campaign = await dbGet('SELECT * FROM voucher_campaigns ...');
\* if (countRow.count >= campaign.quantity) return 400; an undefined campaign
\* makes campaign.quantity throw a TypeError that the catch answers with 500.
\* countRow and campaign are not read after the check.
PostVoucherReadSql(p) ==
  /\ variant \in AsyncSql
  /\ pc[p] = "pv_read"
  /\ LET c == GetCampaign(campaigns, req[p].campaignId) IN
       IF c = <<>> THEN Finish(p, RespTypeError)
       ELSE IF OutOfStock(countRow[p], c[1].quantity) THEN Finish(p, RespOutOfStock)
       ELSE /\ Goto(p, "pv_insert")
            /\ countRow' = [countRow EXCEPT ![p] = 0]
            /\ UNCHANGED campaign
  /\ UNCHANGED <<variant, spin, store>>

\* mongo: the handler starts; with a campaignId it issues findOne
PostVoucherStartMongo(p, body, cid) ==
  /\ variant = "mongo"
  /\ Accept(p, PostReq(body, cid), IF cid # NoId THEN "pv_find" ELSE "pv_insert")
  /\ UNCHANGED <<variant, spin, store>>

\* const campaign = await voucher_campaigns.findOne(...);
\* if (!campaign) return 400 'Campaign not found'
PostVoucherFindMongo(p) ==
  /\ variant = "mongo"
  /\ pc[p] = "pv_find"
  /\ LET c == GetCampaign(campaigns, req[p].campaignId) IN
       IF c = <<>> THEN Finish(p, RespNotFound)
       ELSE /\ campaign' = [campaign EXCEPT ![p] = c]
            /\ Goto(p, "pv_mcount")
            /\ UNCHANGED countRow
  /\ UNCHANGED <<variant, spin, store>>

\* const count = await vouchers.countDocuments({ value: campaign.content });
\* if (count >= campaign.quantity) return 400 'Out of stock'.
\* count and campaign are not read after the check.
PostVoucherCountMongo(p) ==
  /\ variant = "mongo"
  /\ pc[p] = "pv_mcount"
  /\ LET n == CountByValue(vouchers, campaign[p][1].content) IN
       IF OutOfStock(n, campaign[p][1].quantity) THEN Finish(p, RespOutOfStock)
       ELSE /\ Goto(p, "pv_insert")
            /\ campaign' = [campaign EXCEPT ![p] = <<>>]
            /\ UNCHANGED countRow
  /\ UNCHANGED <<variant, spin, store>>

\* await insert; res.json({ success: true })   (pg, sqlite3 and mongo)
PostVoucherInsert(p) ==
  /\ variant # "bsqlite"
  /\ pc[p] = "pv_insert"
  /\ InsertVoucher(req[p].body)
  /\ Finish(p, RespSuccess)
  /\ UNCHANGED <<variant, spin, campaigns, nextCampaignId>>

\* fault injection: the insert runs before the stock check
PostVoucherSync_InsertFirst(body, cid) ==
  /\ variant = "bsqlite"
  /\ vouchers' = vouchers @@ (nextVoucherId :> body)
  /\ nextVoucherId' = nextVoucherId + 1
  /\ LET n == CountForCampaign(vouchers, campaigns, cid)
         c == GetCampaign(campaigns, cid)
     IN
       IF cid # NoId /\ c = <<>> THEN Answer(PostReq(body, cid), RespTypeError)
       ELSE IF cid # NoId /\ n >= c[1].quantity THEN Answer(PostReq(body, cid), RespOutOfStock)
       ELSE Answer(PostReq(body, cid), RespSuccess)
  /\ UNCHANGED <<variant, spin, campaigns, nextCampaignId, pc, req, countRow, campaign>>

\* better-sqlite3: count, read, check and insert run without a yield point
PostVoucherSync(body, cid) ==
  /\ variant = "bsqlite"
  /\ LET n == CountForCampaign(vouchers, campaigns, cid)
         c == GetCampaign(campaigns, cid)
     IN
       IF cid # NoId /\ c = <<>>
         THEN Answer(PostReq(body, cid), RespTypeError) /\ UNCHANGED <<vouchers, nextVoucherId>>
       ELSE IF cid # NoId /\ OutOfStock(n, c[1].quantity)
         THEN Answer(PostReq(body, cid), RespOutOfStock) /\ UNCHANGED <<vouchers, nextVoucherId>>
       ELSE InsertVoucher(body) /\ Answer(PostReq(body, cid), RespSuccess)
  /\ UNCHANGED <<variant, spin, campaigns, nextCampaignId, pc, req, countRow, campaign>>

\* POST /api/vouchers run from request to response with no other request in
\* between: the response and the vouchers it leaves.  v is the server, cs and vs
\* the campaigns and vouchers it starts from, nid the id the insert assigns.
RequestVoucher(v, cs, vs, nid, body, cid) ==
  LET c        == GetCampaign(cs, cid)
      n        == IF v = "mongo" /\ c # <<>> THEN CountByValue(vs, c[1].content)
                  ELSE CountForCampaign(vs, cs, cid)
      rejected(r) == [resp |-> r, vouchers |-> vs]
  IN
    IF cid # NoId /\ c = <<>>
      THEN rejected(IF v = "mongo" THEN RespNotFound ELSE RespTypeError)
    ELSE IF cid # NoId /\ OutOfStock(n, c[1].quantity)
      THEN rejected(RespOutOfStock)
    ELSE [resp |-> RespSuccess, vouchers |-> vs @@ (nid :> VoucherRow(body))]

\* ------------------------------------- POST /api/vouchers: a store call fails
\* the store call a suspended handler is waiting on, and the message the store
\* rejects it with
FailedCall ==
  [pv_count |-> "count failed", pv_read |-> "read failed", pv_find |-> "read failed",
   pv_mcount |-> "count failed", pv_insert |-> "insert failed"]

\* fault injection: a failed insert has written its row all the same
PostVoucherFail_RowWritten(p) ==
  /\ variant # "bsqlite"
  /\ pc[p] \in DOMAIN FailedCall
  /\ IF pc[p] = "pv_insert" THEN InsertVoucher(req[p].body)
     ELSE UNCHANGED <<vouchers, nextVoucherId>>
  /\ Finish(p, RespStoreError(FailedCall[pc[p]]))
  /\ UNCHANGED <<variant, spin, campaigns, nextCampaignId>>

\* pg, sqlite3, mongo: the awaited call rejects; control enters the catch, which
\* answers 500 with err.message and returns
PostVoucherFail(p) ==
  /\ variant # "bsqlite"
  /\ pc[p] \in DOMAIN FailedCall
  /\ Finish(p, RespStoreError(FailedCall[pc[p]]))
  /\ UNCHANGED <<variant, spin, store>>

\* better-sqlite3: a statement throws; the statements after it do not run.  The
\* insert is reached only without a campaignId or after the stock check passed.
PostVoucherSyncFail(body, cid, message) ==
  /\ variant = "bsqlite"
  /\ LET n == CountForCampaign(vouchers, campaigns, cid)
         c == GetCampaign(campaigns, cid)
     IN
       \/ cid # NoId /\ message \in {"count failed", "read failed"}
       \/ /\ message = "insert failed"
          /\ cid = NoId \/ (c # <<>> /\ ~OutOfStock(n, c[1].quantity))
  /\ Answer(PostReq(body, cid), RespStoreError(message))
  /\ UNCHANGED <<variant, spin, store, pc, req, countRow, campaign>>

\* ------------------------------------------------- GET /api/vouchers/count
\* if (!campaignId) return res.json({ count: 0 }); otherwise the handler issues
\* the campaign read (pg, sqlite3, mongo)
VoucherCountStart(p, cid) ==
  /\ variant # "bsqlite"
  /\ IF cid = NoId
       THEN Answer(CountReq(cid), RespCount(0)) /\ UNCHANGED <<pc, req, countRow, campaign>>
       ELSE Accept(p, CountReq(cid), "vc_find")
  /\ UNCHANGED <<variant, spin, store>>

\* const campaign = await dbGet(...) / findOne(...);
\* if (!campaign) return res.json({ count: 0 })
VoucherCountFind(p) ==
  /\ variant # "bsqlite"
  /\ pc[p] = "vc_find"
  /\ LET c == GetCampaign(campaigns, req[p].campaignId) IN
       IF c = <<>> THEN Finish(p, RespCount(0))
       ELSE /\ campaign' = [campaign EXCEPT ![p] = c]
            /\ Goto(p, "vc_count")
            /\ UNCHANGED countRow
  /\ UNCHANGED <<variant, spin, store>>

\* fault injection: the count ignores the campaign's content
VoucherCountCount_AllVouchers(p) ==
  /\ variant # "bsqlite"
  /\ pc[p] = "vc_count"
  /\ Finish(p, RespCount(Cardinality(DOMAIN vouchers)))
  /\ UNCHANGED <<variant, spin, store>>

\* const row = await dbGet('SELECT COUNT(*) ... WHERE value = $1', [campaign.content]);
\* res.json({ count: row.count })
VoucherCountCount(p) ==
  /\ variant # "bsqlite"
  /\ pc[p] = "vc_count"
  /\ Finish(p, RespCount(CountByValue(vouchers, campaign[p][1].content)))
  /\ UNCHANGED <<variant, spin, store>>

\* better-sqlite3: both reads run without a yield point
VoucherCountSync(cid) ==
  /\ variant = "bsqlite"
  /\ LET c == GetCampaign(campaigns, cid) IN
       IF cid = NoId \/ c = <<>>
         THEN Answer(CountReq(cid), RespCount(0))
         ELSE Answer(CountReq(cid), RespCount(CountByValue(vouchers, c[1].content)))
  /\ UNCHANGED <<variant, spin, store, pc, req, countRow, campaign>>

\* ------------------------------------------------ PUT /api/voucher/:id/status
\* fault injection: 'Void' leaves claimedAt as it was
ApplyStatus_VoidKeepsClaimedAt(row, status, now) ==
  IF status = "Issued" THEN [row EXCEPT !.status = status, !.claimedAt = now]
  ELSE [row EXCEPT !.status = status]

\* the three UPDATE statements / the $set document
ApplyStatus(row, status, now) ==
  IF status = "Issued" THEN [row EXCEPT !.status = status, !.claimedAt = now]
  ELSE IF status = "Void" THEN [row EXCEPT !.status = status, !.claimedAt = Null]
  ELSE [row EXCEPT !.status = status]

\* UPDATE vouchers SET ... WHERE id = $n: rewrites the row with that id, if any
UpdateRow(vs, id, status, now) ==
  IF id \in DOMAIN vs THEN [vs EXCEPT ![id] = ApplyStatus(vs[id], status, now)] ELSE vs

\* updateOne's modifiedCount: documents that matched and were changed
ModifiedCount(vs, id, status, now) ==
  IF id \in DOMAIN vs /\ ApplyStatus(vs[id], status, now) # vs[id] THEN 1 ELSE 0

\* pg, sqlite3, better-sqlite3: one UPDATE, then res.json({ success: true })
UpdateVoucherStatusSql(id, status, now) ==
  /\ variant # "mongo"
  /\ vouchers' = UpdateRow(vouchers, id, status, now)
  /\ Answer(PutReq(id, status), RespSuccess)
  /\ UNCHANGED <<variant, spin, campaigns, nextCampaignId, nextVoucherId, pc, req, countRow, campaign>>

\* mongo: updateOne, then res.json({ success: result.modifiedCount > 0 })
UpdateVoucherStatusMongo(id, status, now) ==
  /\ variant = "mongo"
  /\ vouchers' = UpdateRow(vouchers, id, status, now)
  /\ Answer(PutReq(id, status),
            IF ModifiedCount(vouchers, id, status, now) > 0 THEN RespSuccess ELSE RespNoSuccess)
  /\ UNCHANGED <<variant, spin, campaigns, nextCampaignId, nextVoucherId, pc, req, countRow, campaign>>

\* ---------------------------------------------------- GET /api/my-vouchers
\* fault injection: the query has lost its WHERE clause
MyRows_All(vs, username) == {[id |-> i, doc |-> vs[i]] : i \in DOMAIN vs}

\* SELECT * FROM vouchers WHERE username = $1 / vouchers.find({ username })
MyRows(vs, username) ==
  {[id |-> i, doc |-> vs[i]] : i \in {j \in DOMAIN vs : vs[j].username = username}}

\* one query, then res.json(rows); the same in the four servers
MyVouchers(username) ==
  /\ Answer(MyReq(username), RespRows(MyRows(vouchers, username)))
  /\ UNCHANGED <<variant, spin, store, pc, req, countRow, campaign>>

\* ------------------------------------------ DELETE /api/admin/vouchers/:id
\* mongo only: deleteOne, then res.json({ success: result.deletedCount > 0 })
DeleteVoucherMongo(id) ==
  /\ variant = "mongo"
  /\ vouchers' = [i \in DOMAIN vouchers \ {id} |-> vouchers[i]]
  /\ Answer(DelVoucherReq(id), IF id \in DOMAIN vouchers THEN RespSuccess ELSE RespNoSuccess)
  /\ UNCHANGED <<variant, spin, campaigns, nextCampaignId, nextVoucherId, pc, req, countRow, campaign>>

\* ------------------------------- POST /api/admin/spin-wheel/:id/start (mongo)
\* the handler starts and issues deleteMany
SpinStart(p, id) ==
  /\ variant = "mongo"
  /\ Accept(p, SpinStartReq(id), "sw_delete")
  /\ UNCHANGED <<variant, store, spin>>

\* await spin_wheel_active.deleteMany({})
SpinStartDelete(p) ==
  /\ variant = "mongo"
  /\ pc[p] = "sw_delete"
  /\ spinActive' = <<>>
  /\ Goto(p, "sw_insert")
  /\ UNCHANGED <<variant, store, countRow, campaign, spinConfig, nextSpinId>>

\* await spin_wheel_active.insertOne({ activeSpinConfigId }); res.json({ success: true })
SpinStartInsert(p) ==
  /\ variant = "mongo"
  /\ pc[p] = "sw_insert"
  /\ spinActive' = Append(spinActive, req[p].id)
  /\ Finish(p, RespSuccess)
  /\ UNCHANGED <<variant, store, spinConfig, nextSpinId>>

\* ------------------------------------ POST /api/admin/spin-wheel/stop (mongo)
\* app.post registers two handlers for this path, in this order: the first
\* empties spin_wheel_active, the second sets every spin_wheel_config document
\* to 'inactive'
StopRegistrations == <<"stop_active", "stop_config">>

\* the router's choice read the other way round: the handler registered last
Dispatch_Last(handlers) == handlers[Len(handlers)]

\* Express runs the matching handlers in registration order and goes on to the
\* next one only when a handler calls next(); both handlers answer without
\* calling it, so the request is served by the first
Dispatch(handlers) == handlers[1]

StopHandler == Dispatch(StopRegistrations)

\* the dispatched handler starts and issues its store call
SpinStop(p) ==
  /\ variant = "mongo"
  /\ Accept(p, SpinStopReq, "ss_delete")
  /\ UNCHANGED <<variant, store, spin>>

\* spin_wheel_config.updateMany({}, { $set: { status } })
SetAllStatus(cfg, status) == [d \in DOMAIN cfg |-> [cfg[d] EXCEPT !.status = status]]

\* first registration: await spin_wheel_active.deleteMany({});
\* second registration: await spin_wheel_config.updateMany({}, inactive);
\* then res.json({ success: true, ... })
SpinStopDelete(p) ==
  /\ variant = "mongo"
  /\ pc[p] = "ss_delete"
  /\ IF StopHandler = "stop_active"
       THEN spinActive' = <<>> /\ UNCHANGED spinConfig
       ELSE spinConfig' = SetAllStatus(spinConfig, "inactive") /\ UNCHANGED spinActive
  /\ Finish(p, RespSuccess)
  /\ UNCHANGED <<variant, store, nextSpinId>>

\* ----------------------------------- POST /api/admin/spin-wheel/start (mongo)
\* one updateMany, then res.json({ success: true, ... })
SpinStartAll ==
  /\ variant = "mongo"
  /\ spinConfig' = SetAllStatus(spinConfig, "active")
  /\ Answer(SpinStartAllReq, RespSuccess)
  /\ UNCHANGED <<variant, store, spinActive, nextSpinId, pc, req, countRow, campaign>>

\* ----------------------------------------- POST /api/admin/spin-wheel (mongo)
\* req.body.prizes: the arrays an admin submits (a prize may omit its status)
PrizeLists ==
  << <<[label |-> "p1", status |-> Null]>>,
     <<[label |-> "p1", status |-> "inactive"]>>,
     <<[label |-> "p1", status |-> "active"], [label |-> "p2", status |-> "inactive"]>> >>

\* prize.status || 'active'
DefaultStatus(status) == IF status = Null THEN "active" ELSE status

\* documents stored plus those that replacements in flight will still insert
RECURSIVE PendingPrizes(_)
PendingPrizes(ps) ==
  IF ps = {} THEN 0
  ELSE LET p == CHOOSE q \in ps : TRUE IN
         (IF req[p].kind = "spinreplace" THEN Len(PrizeLists[req[p].id]) ELSE 0)
           + PendingPrizes(ps \ {p})

SpinRoom(k) == (nextSpinId - 1) + PendingPrizes(Procs) + Len(PrizeLists[k]) <= MaxSpinDocs

\* the handler starts and issues deleteMany; k names the submitted array
SpinReplace(p, k) ==
  /\ variant = "mongo"
  /\ Accept(p, SpinReplaceReq(k), "sr_delete")
  /\ UNCHANGED <<variant, store, spin>>

\* await spin_wheel_config.deleteMany({})
SpinReplaceDelete(p) ==
  /\ variant = "mongo"
  /\ pc[p] = "sr_delete"
  /\ spinConfig' = <<>>
  /\ Goto(p, "sr_insert")
  /\ UNCHANGED <<variant, store, countRow, campaign, spinActive, nextSpinId>>

\* docs = prizes.map(...); await spin_wheel_config.insertMany(docs);
\* res.json({ success: true })
SpinReplaceInsert(p) ==
  /\ variant = "mongo"
  /\ pc[p] = "sr_insert"
  /\ LET prizes == PrizeLists[req[p].id] IN
       /\ spinConfig' = spinConfig @@
            [d \in nextSpinId..(nextSpinId + Len(prizes) - 1) |->
               [label  |-> prizes[d - nextSpinId + 1].label,
                status |-> DefaultStatus(prizes[d - nextSpinId + 1].status)]]
       /\ nextSpinId' = nextSpinId + Len(prizes)
  /\ Finish(p, RespSuccess)
  /\ UNCHANGED <<variant, store, spinActive>>

\* ------------------------------------------ GET /api/spin-wheel/active (mongo)
\* the default rewards
DefaultPrizes ==
  {[id |-> NoId, doc |-> [label |-> "Better luck next time", status |-> Null]],
   [id |-> NoId, doc |-> [label |-> "Try again", status |-> Null]]}

\* spin_wheel_config.find({ status: 'active' })
ActiveConfigs(cfg) == {d \in DOMAIN cfg : cfg[d].status = "active"}

\* one find; no active document answers the default rewards with
\* activeSpinConfigId null, otherwise prizes[0]._id and the active documents
SpinActive ==
  /\ variant = "mongo"
  /\ LET active == ActiveConfigs(spinConfig) IN
       Answer(SpinActiveReq,
              IF active = {} THEN RespSpinActive(NoId, DefaultPrizes)
              ELSE RespSpinActive(CHOOSE d \in active : \A e \in active : d <= e,
                                  {[id |-> d, doc |-> spinConfig[d]] : d \in active}))
  /\ UNCHANGED <<variant, store, spin, pc, req, countRow, campaign>>

\* --------------------------------------------------------------- Next
AnyId == {NoId} \cup CampIds

\* `attempts` counts calls in the scenarios only
Uncounted == UNCHANGED attempts
Counted(max) == attempts < max /\ attempts' = attempts + 1

\* Issuance: campaigns, voucher requests and the count query
Next ==
  \/ \E c \in Contents, q \in Quantities, s \in CampaignStatuses :
       CreateCampaign(c, q, s) /\ Uncounted
  \/ \E p \in Procs, b \in Bodies, cid \in AnyId :
       Room /\ PostVoucherStartSql(p, b, cid) /\ Uncounted
  \/ \E p \in Procs, b \in Bodies, cid \in AnyId :
       Room /\ PostVoucherStartMongo(p, b, cid) /\ Uncounted
  \/ \E b \in Bodies, cid \in AnyId : Room /\ PostVoucherSync(b, cid) /\ Uncounted
  \/ \E p \in Procs : PostVoucherCountSql(p) /\ Uncounted
  \/ \E p \in Procs : PostVoucherReadSql(p) /\ Uncounted
  \/ \E p \in Procs : PostVoucherFindMongo(p) /\ Uncounted
  \/ \E p \in Procs : PostVoucherCountMongo(p) /\ Uncounted
  \/ \E p \in Procs : PostVoucherInsert(p) /\ Uncounted
  \/ \E p \in Procs, cid \in AnyId : VoucherCountStart(p, cid) /\ Uncounted
  \/ \E p \in Procs : VoucherCountFind(p) /\ Uncounted
  \/ \E p \in Procs : VoucherCountCount(p) /\ Uncounted
  \/ \E cid \in AnyId : VoucherCountSync(cid) /\ Uncounted

Spec == Init /\ [][Next]_vars

\* Voucher lifecycle: campaign-less issuance and status updates
NextStatus ==
  \/ \E p \in Procs, b \in Bodies : Room /\ PostVoucherStartSql(p, b, NoId) /\ Uncounted
  \/ \E p \in Procs, b \in Bodies : Room /\ PostVoucherStartMongo(p, b, NoId) /\ Uncounted
  \/ \E b \in Bodies : Room /\ PostVoucherSync(b, NoId) /\ Uncounted
  \/ \E p \in Procs : PostVoucherInsert(p) /\ Uncounted
  \/ \E id \in VoucherIds, s \in Statuses, t \in Timestamps :
       UpdateVoucherStatusSql(id, s, t) /\ Uncounted
  \/ \E id \in VoucherIds, s \in Statuses, t \in Timestamps :
       UpdateVoucherStatusMongo(id, s, t) /\ Uncounted

SpecStatus == Init /\ [][NextStatus]_vars

\* Sequential scenario: one campaign, then strictly sequential calls naming it
Quiescent == \A p \in Procs : pc[p] = "idle"
SeqReady == campaigns # <<>> /\ Quiescent

NextSeq ==
  \/ \E c \in Contents, q \in 0..SeqQuantity, s \in CampaignStatuses :
       campaigns = <<>> /\ CreateCampaign(c, q, s) /\ Uncounted
  \/ \E p \in Procs, b \in Bodies :
       SeqReady /\ PostVoucherStartSql(p, b, 1) /\ Counted(SeqCalls)
  \/ \E p \in Procs, b \in Bodies :
       SeqReady /\ PostVoucherStartMongo(p, b, 1) /\ Counted(SeqCalls)
  \/ \E b \in Bodies : SeqReady /\ PostVoucherSync(b, 1) /\ Counted(SeqCalls)
  \/ \E p \in Procs : PostVoucherCountSql(p) /\ Uncounted
  \/ \E p \in Procs : PostVoucherReadSql(p) /\ Uncounted
  \/ \E p \in Procs : PostVoucherFindMongo(p) /\ Uncounted
  \/ \E p \in Procs : PostVoucherCountMongo(p) /\ Uncounted
  \/ \E p \in Procs : PostVoucherInsert(p) /\ Uncounted

SpecSeq == Init /\ [][NextSeq]_vars

\* Stress scenario: RaceCalls concurrent calls against one campaign of quantity
\* RaceQuantity, every call carrying value == content
RaceContent == "a"
RaceBodies == {b \in Bodies : b.value = RaceContent}

InitRace ==
  /\ variant \in Variants
  /\ campaigns = (1 :> [content |-> RaceContent, quantity |-> RaceQuantity, status |-> "active"])
  /\ nextCampaignId = 2
  /\ vouchers = <<>>
  /\ nextVoucherId = 1
  /\ spinActive = <<>>
  /\ spinConfig = <<>>
  /\ nextSpinId = 1
  /\ InitProcs(RaceCalls)

NextRace ==
  \/ \E p \in Procs, b \in RaceBodies : PostVoucherStartSql(p, b, 1) /\ Counted(RaceCalls)
  \/ \E p \in Procs, b \in RaceBodies : PostVoucherStartMongo(p, b, 1) /\ Counted(RaceCalls)
  \/ \E b \in RaceBodies : PostVoucherSync(b, 1) /\ Counted(RaceCalls)
  \/ \E p \in Procs : PostVoucherCountSql(p) /\ Uncounted
  \/ \E p \in Procs : PostVoucherReadSql(p) /\ Uncounted
  \/ \E p \in Procs : PostVoucherFindMongo(p) /\ Uncounted
  \/ \E p \in Procs : PostVoucherCountMongo(p) /\ Uncounted
  \/ \E p \in Procs : PostVoucherInsert(p) /\ Uncounted

SpecRace == InitRace /\ [][NextRace]_vars

\* Voucher wallet: campaign-less issuance, status updates, admin removal and
\* the per-user query
NextMine ==
  \/ \E p \in Procs, b \in Bodies : Room /\ PostVoucherStartSql(p, b, NoId) /\ Uncounted
  \/ \E p \in Procs, b \in Bodies : Room /\ PostVoucherStartMongo(p, b, NoId) /\ Uncounted
  \/ \E b \in Bodies : Room /\ PostVoucherSync(b, NoId) /\ Uncounted
  \/ \E p \in Procs : PostVoucherInsert(p) /\ Uncounted
  \/ \E id \in VoucherIds, s \in Statuses, t \in Timestamps :
       UpdateVoucherStatusSql(id, s, t) /\ Uncounted
  \/ \E id \in VoucherIds, s \in Statuses, t \in Timestamps :
       UpdateVoucherStatusMongo(id, s, t) /\ Uncounted
  \/ \E id \in VoucherIds : DeleteVoucherMongo(id) /\ Uncounted
  \/ \E u \in Usernames : MyVouchers(u) /\ Uncounted

SpecMine == Init /\ [][NextMine]_vars

\* Shared-content scenario: two campaigns with the same content, then strictly
\* sequential calls that name the one, the other or no campaign
PoolContent == "a"
PoolIds == {NoId, 1, 2}

InitPool ==
  /\ variant \in Variants
  /\ \E q1 \in 0..PoolQuantity, q2 \in 0..PoolQuantity, s \in CampaignStatuses :
       campaigns = (1 :> [content |-> PoolContent, quantity |-> q1, status |-> s])
                @@ (2 :> [content |-> PoolContent, quantity |-> q2, status |-> "active"])
  /\ nextCampaignId = 3
  /\ vouchers = <<>>
  /\ nextVoucherId = 1
  /\ spinActive = <<>>
  /\ spinConfig = <<>>
  /\ nextSpinId = 1
  /\ InitProcs(NumProcs)

NextPool ==
  \/ \E p \in Procs, b \in Bodies, cid \in PoolIds :
       Quiescent /\ PostVoucherStartSql(p, b, cid) /\ Counted(PoolCalls)
  \/ \E p \in Procs, b \in Bodies, cid \in PoolIds :
       Quiescent /\ PostVoucherStartMongo(p, b, cid) /\ Counted(PoolCalls)
  \/ \E b \in Bodies, cid \in PoolIds : PostVoucherSync(b, cid) /\ Counted(PoolCalls)
  \/ \E p \in Procs : PostVoucherCountSql(p) /\ Uncounted
  \/ \E p \in Procs : PostVoucherReadSql(p) /\ Uncounted
  \/ \E p \in Procs : PostVoucherFindMongo(p) /\ Uncounted
  \/ \E p \in Procs : PostVoucherCountMongo(p) /\ Uncounted
  \/ \E p \in Procs : PostVoucherInsert(p) /\ Uncounted

SpecPool == InitPool /\ [][NextPool]_vars

\* Administration: campaigns come and go while vouchers are issued (one
\* request at a time), counted, marked 'Issued' and, in the MongoDB server,
\* removed by the admin
NextAdmin ==
  \/ \E c \in Contents, q \in Quantities, s \in CampaignStatuses :
       CreateCampaign(c, q, s) /\ Uncounted
  \/ \E id \in CampIds : DeleteCampaignPg(id) /\ Uncounted
  \/ \E id \in CampIds : DeleteCampaignSqlite3(id) /\ Uncounted
  \/ \E id \in CampIds : DeleteCampaignSync(id) /\ Uncounted
  \/ \E id \in CampIds : DeleteCampaignMongo(id) /\ Uncounted
  \/ \E p \in Procs, b \in Bodies, cid \in AnyId :
       Room /\ Quiescent /\ PostVoucherStartSql(p, b, cid) /\ Uncounted
  \/ \E p \in Procs, b \in Bodies, cid \in AnyId :
       Room /\ Quiescent /\ PostVoucherStartMongo(p, b, cid) /\ Uncounted
  \/ \E b \in Bodies, cid \in AnyId : Room /\ PostVoucherSync(b, cid) /\ Uncounted
  \/ \E p \in Procs : PostVoucherCountSql(p) /\ Uncounted
  \/ \E p \in Procs : PostVoucherReadSql(p) /\ Uncounted
  \/ \E p \in Procs : PostVoucherFindMongo(p) /\ Uncounted
  \/ \E p \in Procs : PostVoucherCountMongo(p) /\ Uncounted
  \/ \E p \in Procs : PostVoucherInsert(p) /\ Uncounted
  \/ \E p \in Procs, cid \in AnyId : Quiescent /\ VoucherCountStart(p, cid) /\ Uncounted
  \/ \E p \in Procs : VoucherCountFind(p) /\ Uncounted
  \/ \E p \in Procs : VoucherCountCount(p) /\ Uncounted
  \/ \E cid \in AnyId : VoucherCountSync(cid) /\ Uncounted
  \/ \E id \in VoucherIds : UpdateVoucherStatusSql(id, "Issued", "t1") /\ Uncounted
  \/ \E id \in VoucherIds : UpdateVoucherStatusMongo(id, "Issued", "t1") /\ Uncounted
  \/ \E id \in VoucherIds : DeleteVoucherMongo(id) /\ Uncounted

SpecAdmin == Init /\ [][NextAdmin]_vars

\* Spin wheel: the admin starts and stops spin configurations
InitSpin == Init /\ variant = "mongo"

NextSpin ==
  \/ \E p \in Procs, id \in SpinIds : SpinStart(p, id) /\ Uncounted
  \/ \E p \in Procs : SpinStartDelete(p) /\ Uncounted
  \/ \E p \in Procs : SpinStartInsert(p) /\ Uncounted
  \/ \E p \in Procs : SpinStop(p) /\ Uncounted
  \/ \E p \in Procs : SpinStopDelete(p) /\ Uncounted

SpecSpin == InitSpin /\ [][NextSpin]_vars

\* Spin wheel rewards: the admin replaces the configuration, starts and stops
\* the spin, and users read the active rewards
NextWheel ==
  \/ \E p \in Procs, k \in DOMAIN PrizeLists :
       SpinRoom(k) /\ SpinReplace(p, k) /\ Uncounted
  \/ \E p \in Procs : SpinReplaceDelete(p) /\ Uncounted
  \/ \E p \in Procs : SpinReplaceInsert(p) /\ Uncounted
  \/ SpinStartAll /\ Uncounted
  \/ \E p \in Procs : SpinStop(p) /\ Uncounted
  \/ \E p \in Procs : SpinStopDelete(p) /\ Uncounted
  \/ SpinActive /\ Uncounted

SpecWheel == InitSpin /\ [][NextWheel]_vars

\* Unreliable store: one campaign is stored; concurrent voucher requests, any
\* store call of which may fail
StoreMessages == {FailedCall[l] : l \in DOMAIN FailedCall}

InitFail ==
  /\ variant \in Variants
  /\ \E q \in Quantities :
       campaigns = (1 :> [content |-> "a", quantity |-> q, status |-> "active"])
  /\ nextCampaignId = 2
  /\ vouchers = <<>>
  /\ nextVoucherId = 1
  /\ spinActive = <<>>
  /\ spinConfig = <<>>
  /\ nextSpinId = 1
  /\ InitProcs(NumProcs)

NextFail ==
  \/ \E p \in Procs, b \in Bodies, cid \in AnyId :
       Room /\ PostVoucherStartSql(p, b, cid) /\ Uncounted
  \/ \E p \in Procs, b \in Bodies, cid \in AnyId :
       Room /\ PostVoucherStartMongo(p, b, cid) /\ Uncounted
  \/ \E b \in Bodies, cid \in AnyId : Room /\ PostVoucherSync(b, cid) /\ Uncounted
  \/ \E p \in Procs : PostVoucherCountSql(p) /\ Uncounted
  \/ \E p \in Procs : PostVoucherReadSql(p) /\ Uncounted
  \/ \E p \in Procs : PostVoucherFindMongo(p) /\ Uncounted
  \/ \E p \in Procs : PostVoucherCountMongo(p) /\ Uncounted
  \/ \E p \in Procs : PostVoucherInsert(p) /\ Uncounted
  \/ \E p \in Procs : PostVoucherFail(p) /\ Uncounted
  \/ \E b \in Bodies, cid \in AnyId, m \in StoreMessages :
       PostVoucherSyncFail(b, cid, m) /\ Uncounted

SpecFail == InitFail /\ [][NextFail]_vars

\* The same run under the proviso that every store call a handler is waiting
\* on eventually returns or fails
StoreReturns(p) ==
  \/ PostVoucherCountSql(p)
  \/ PostVoucherReadSql(p)
  \/ PostVoucherFindMongo(p)
  \/ PostVoucherCountMongo(p)
  \/ PostVoucherInsert(p)
  \/ PostVoucherFail(p)

SpecLive ==
  /\ InitFail
  /\ [][NextFail]_vars
  /\ \A p \in 1..NumProcs : WF_vars(StoreReturns(p) /\ Uncounted)

\* ================================================================ claims
\* a response was sent in this step; out' holds the request and the response
Completed == out' # NoOut
Min(a, b) == IF a <= b THEN a ELSE b
Rejections == {RespOutOfStock, RespNotFound}
StoreUnchanged == UNCHANGED <<campaigns, nextCampaignId, vouchers, nextVoucherId>>

\* C1: for every stored campaign C, the number of stored vouchers whose value
\* equals C.content never exceeds C.quantity, under any interleaving of
\* requestVoucher calls.
C1_StockNeverExceedsQuantity ==
  \A c \in DOMAIN campaigns :
    CountByValue(vouchers, campaigns[c].content) <= campaigns[c].quantity

\* C2: after k strictly sequential calls naming campaign C (quantity N), starting
\* with no voucher of value C.content, the number of vouchers with value ==
\* C.content is min(N, k); calls 1..N answer success and every later call
\* answers Out of stock.
C2_SequentialMinRule ==
  (Quiescent /\ campaigns # <<>>) =>
    LET N == campaigns[1].quantity IN
      /\ CountByValue(vouchers, campaigns[1].content) = Min(N, attempts)
      /\ attempts >= 1 =>
           out.resp = IF attempts <= N THEN RespSuccess ELSE RespOutOfStock

\* C3: a requestVoucher call whose campaignId names no stored campaign is
\* answered 400 'Campaign not found' and leaves the vouchers unchanged, in
\* every variant.
C3_UnknownCampaignRejected ==
  [][(/\ Completed
      /\ out'.req.kind = "post"
      /\ out'.req.campaignId # NoId
      /\ out'.req.campaignId \notin DOMAIN campaigns)
     => (out'.resp = RespNotFound /\ vouchers' = vouchers)]_vars

\* C4: a requestVoucher call without campaignId makes no campaign lookup and no
\* stock count (its handler only ever waits on the insert, with countRow and
\* campaign never assigned), and it answers success having inserted exactly one
\* voucher that carries the caller's username, value, prize, status and
\* claimedAt, whatever the campaigns and their stock.
C4_NoLookupNoCount ==
  \A p \in Procs :
    (req[p].kind = "post" /\ req[p].campaignId = NoId) =>
      (pc[p] = "pv_insert" /\ countRow[p] = 0 /\ campaign[p] = <<>>)

C4_CampaignlessAlwaysInserts ==
  /\ []C4_NoLookupNoCount
  /\ [][(Completed /\ out'.req.kind = "post" /\ out'.req.campaignId = NoId)
        => (/\ out'.resp = RespSuccess
            /\ vouchers' = vouchers @@
                 (nextVoucherId :>
                    [username  |-> out'.req.body.username,
                     value     |-> out'.req.body.value,
                     prize     |-> out'.req.body.prize,
                     status    |-> out'.req.body.status,
                     claimedAt |-> out'.req.body.claimedAt])
            /\ nextVoucherId' = nextVoucherId + 1
            /\ campaigns' = campaigns)]_vars

\* the campaign-less call succeeded although a campaign with the same content
\* is out of stock
C4_Witness ==
  /\ out.req.kind = "post" /\ out.req.campaignId = NoId /\ out.resp = RespSuccess
  /\ \E c \in DOMAIN campaigns :
       /\ campaigns[c].content = out.req.body.value
       /\ campaigns[c].quantity >= 0
       /\ CountByValue(vouchers, campaigns[c].content) > campaigns[c].quantity

\* C5: a requestVoucher call that ends in a rejection leaves vouchers and
\* campaigns as they were, and the vouchers change only in a step that answers
\* success (so a rejected call has written nothing before its answer either).
C5_RejectionHasNoEffect ==
  /\ [][(Completed /\ out'.req.kind = "post" /\ out'.resp \in Rejections)
        => StoreUnchanged]_vars
  /\ [][(vouchers' # vouchers)
        => (Completed /\ out'.req.kind = "post" /\ out'.resp = RespSuccess
            /\ DOMAIN vouchers' = DOMAIN vouchers \cup {nextVoucherId})]_vars

\* a call was rejected as out of stock while vouchers are stored
C5_Witness ==
  /\ out.req.kind = "post" /\ out.resp = RespOutOfStock
  /\ vouchers # <<>>

\* C6: every voucher persisted by a successful requestVoucher call naming
\* campaign C has value C.content, whatever value the caller supplied.
C6_ValueForcedToContent ==
  [][(/\ Completed
      /\ out'.req.kind = "post"
      /\ out'.req.campaignId \in DOMAIN campaigns
      /\ out'.resp = RespSuccess)
     => (/\ nextVoucherId \in DOMAIN vouchers'
         /\ vouchers'[nextVoucherId].value = campaigns[out'.req.campaignId].content)]_vars

\* C7: in the stress scenario every call that goes on to insert had read
\* issued < quantity, and no more vouchers than calls exist; in the variants
\* that await between check and insert all RaceCalls calls can pass the check
\* before any insert, so the count of that value exceeds the quantity and
\* reaches RaceCalls.
C7_PassedCheck(p) ==
  /\ pc[p] \in {"pv_read", "pv_mcount"}
  /\ pc'[p] = "pv_insert"

C7_Observed(p) ==
  IF pc[p] = "pv_read" THEN countRow[p] ELSE CountByValue(vouchers, RaceContent)

C7_RaceOvershootBounded ==
  /\ [](CountByValue(vouchers, RaceContent) <= RaceCalls)
  /\ [][\A p \in Procs : C7_PassedCheck(p) => C7_Observed(p) < RaceQuantity]_vars

C7_Witness ==
  /\ variant \in {"pg", "sqlite3", "mongo"}
  /\ RaceCalls > RaceQuantity
  /\ CountByValue(vouchers, RaceContent) = RaceCalls

\* C8: updateVoucherStatus(id, s) on an existing voucher sets status to s, sets
\* claimedAt to a non-null timestamp for 'Issued', to null for 'Void', leaves it
\* for any other s, and changes neither username, value, prize nor any other
\* voucher.
C8_StatusUpdateFrame ==
  [][(Completed /\ out'.req.kind = "put" /\ out'.req.id \in DOMAIN vouchers)
     => LET id  == out'.req.id
            s   == out'.req.status
            old == vouchers[id]
            new == vouchers'[id]
        IN
          /\ DOMAIN vouchers' = DOMAIN vouchers
          /\ new.status = s
          /\ (s = "Issued") => (new.claimedAt # Null /\ new.claimedAt \in Timestamps)
          /\ (s = "Void") => (new.claimedAt = Null)
          /\ (s \notin {"Issued", "Void"}) => (new.claimedAt = old.claimedAt)
          /\ new.username = old.username
          /\ new.value = old.value
          /\ new.prize = old.prize
          /\ \A j \in DOMAIN vouchers \ {id} : vouchers'[j] = vouchers[j]]_vars

\* a voucher created Pending with claimedAt null was set to 'Issued' and now
\* carries a timestamp, beside a second voucher that kept its fields
C8_Witness ==
  /\ out.req.kind = "put" /\ out.req.status = "Issued"
  /\ out.req.id \in DOMAIN vouchers
  /\ vouchers[out.req.id].username = "alice"
  /\ vouchers[out.req.id].status = "Issued"
  /\ vouchers[out.req.id].claimedAt # Null
  /\ \E j \in DOMAIN vouchers \ {out.req.id} : vouchers[j] \in Bodies

\* C9: PUT /api/voucher/:id/status answers {success: b} with b true exactly
\* when the call modified a voucher, and false (store unchanged) when no
\* voucher has that id, in every variant.
C9_SuccessIffModified ==
  [][(Completed /\ out'.req.kind = "put")
     => (/\ (out'.resp.success = "true") <=> (vouchers' # vouchers)
         /\ (out'.req.id \notin DOMAIN vouchers)
              => (out'.resp.success = "false" /\ vouchers' = vouchers))]_vars

\* C10: GET /api/vouchers/count answers {count: 0} when campaignId is missing
\* or names no stored campaign, otherwise the number of stored vouchers whose
\* value equals that campaign's content; it answers no error and changes
\* nothing in the store.
C10_Expected(cid) ==
  IF cid = NoId \/ cid \notin DOMAIN campaigns THEN 0
  ELSE CountByValue(vouchers, campaigns[cid].content)

C10_CountEndpoint ==
  [][(Completed /\ out'.req.kind = "count")
     => (/\ out'.resp = RespCount(C10_Expected(out'.req.campaignId))
         /\ out'.resp.code = 200
         /\ StoreUnchanged)]_vars

\* the count for a campaign was 1 while two vouchers are stored
C10_Witness ==
  /\ out.req.kind = "count"
  /\ out.req.campaignId \in DOMAIN campaigns
  /\ out.resp = RespCount(1)
  /\ Cardinality(DOMAIN vouchers) = 2

\* C11: when a store call of requestVoucher fails (campaign read, count or
\* insert) the request ends in that step with 500 carrying the store's message,
\* the handler makes no further store call (it is idle, the call is not
\* retried), the store is as it was, and vouchers are only ever written by a
\* step that answers success, so the failed request has created none.
C11_IsStoreError(r) == r.code = 500 /\ r.error \in StoreMessages

C11_StoreErrorEndsRequest ==
  /\ [][\A p \in Procs :
         PostVoucherFail(p)
           => (/\ Completed
               /\ out'.req = req[p]
               /\ out'.resp = RespStoreError(FailedCall[pc[p]])
               /\ pc'[p] = "idle" /\ req'[p] = NoReq
               /\ StoreUnchanged)]_vars
  /\ [][(Completed /\ out'.req.kind = "post" /\ C11_IsStoreError(out'.resp))
        => StoreUnchanged]_vars
  /\ [][(vouchers' # vouchers)
        => (Completed /\ out'.req.kind = "post" /\ ~C11_IsStoreError(out'.resp))]_vars

\* the insert of a call naming a campaign in stock failed, after another call
\* had stored a voucher
C11_Witness ==
  /\ out.req.kind = "post"
  /\ out.req.campaignId \in DOMAIN campaigns
  /\ out.resp = RespStoreError("insert failed")
  /\ vouchers # <<>>
  /\ CountByValue(vouchers, campaigns[out.req.campaignId].content)
       < campaigns[out.req.campaignId].quantity

\* C12: a successful campaign-less requestVoucher stores a voucher with exactly
\* the submitted username, value, prize, status and claimedAt; a stored voucher
\* stays as it is in every step other than a status update or an admin
\* deletion of that voucher; and the my-vouchers query for u answers exactly
\* the stored vouchers whose username is u (so it returns that voucher for as
\* long as it is stored, and never a voucher of another user).
C12_MyVouchersRetrievable ==
  /\ [][(Completed /\ out'.req.kind = "post" /\ out'.req.campaignId = NoId
          /\ out'.resp = RespSuccess)
        => (/\ nextVoucherId \in DOMAIN vouchers'
            /\ vouchers'[nextVoucherId].username = out'.req.body.username
            /\ vouchers'[nextVoucherId].value = out'.req.body.value
            /\ vouchers'[nextVoucherId].prize = out'.req.body.prize
            /\ vouchers'[nextVoucherId].status = out'.req.body.status
            /\ vouchers'[nextVoucherId].claimedAt = out'.req.body.claimedAt)]_vars
  /\ [][\A i \in DOMAIN vouchers :
         \/ i \in DOMAIN vouchers' /\ vouchers'[i] = vouchers[i]
         \/ Completed /\ out'.req.kind \in {"put", "delvoucher"} /\ out'.req.id = i]_vars
  /\ [][(Completed /\ out'.req.kind = "my")
        => LET u == out'.req.body.username IN
             /\ out'.resp.code = 200
             /\ \A i \in DOMAIN vouchers :
                  vouchers[i].username = u
                    <=> [id |-> i, doc |-> vouchers[i]] \in out'.resp.rows
             /\ \A r \in out'.resp.rows :
                  /\ r.id \in DOMAIN vouchers /\ r.doc = vouchers[r.id]
                  /\ r.doc.username = u
             /\ StoreUnchanged]_vars

\* the query for alice returned her voucher exactly as she submitted it, and
\* nothing else, while a voucher of bob is stored
C12_Witness ==
  /\ out.req.kind = "my" /\ out.req.body.username = "alice"
  /\ Cardinality(out.resp.rows) = 1
  /\ \E r \in out.resp.rows :
       r.doc = [username |-> "alice", value |-> "a", prize |-> "p1",
                status |-> "Pending", claimedAt |-> Null]
  /\ \E j \in DOMAIN vouchers : vouchers[j].username = "bob"

\* C13: in the better-sqlite3 server a request to POST /api/vouchers is one
\* atomic step (no handler is ever suspended between two store calls), and in
\* the stress scenario (concurrent calls naming the campaign, value == content,
\* no campaign-less insert) the number of vouchers with that value never
\* exceeds the campaign's quantity.
C13_SyncVariantHoldsStock ==
  (variant = "bsqlite") =>
    /\ Quiescent
    /\ CountByValue(vouchers, campaigns[1].content) <= campaigns[1].quantity

\* all calls of the stress scenario were made: exactly the quantity was
\* issued and the last call was rejected
C13_Witness ==
  /\ variant = "bsqlite"
  /\ attempts = RaceCalls
  /\ CountByValue(vouchers, campaigns[1].content) = campaigns[1].quantity
  /\ campaigns[1].quantity = RaceQuantity
  /\ out.req.kind = "post" /\ out.req.campaignId = 1 /\ out.resp = RespOutOfStock

\* C14: in a strictly sequential run every requestVoucher call without
\* campaignId succeeds and adds one voucher of the value it carries, so such
\* calls with value == C.content raise the count of that value above
\* C.quantity; the count never goes down, and every call naming C made while
\* the count is at or above C.quantity is rejected with Out of stock.
C14_CampaignlessBypass ==
  /\ [][(Completed /\ out'.req.kind = "post" /\ out'.req.campaignId = NoId)
        => (/\ out'.resp = RespSuccess
            /\ CountByValue(vouchers', out'.req.body.value)
                 = CountByValue(vouchers, out'.req.body.value) + 1)]_vars
  /\ [][\A v \in Contents : CountByValue(vouchers', v) >= CountByValue(vouchers, v)]_vars
  /\ [][(/\ Completed /\ out'.req.kind = "post"
          /\ out'.req.campaignId \in DOMAIN campaigns
          /\ CountByValue(vouchers, campaigns[out'.req.campaignId].content)
               >= campaigns[out'.req.campaignId].quantity)
        => (out'.resp = RespOutOfStock /\ vouchers' = vouchers)]_vars

\* more vouchers of the shared content are stored than either campaign allows
\* (sequential campaign calls alone cannot get there), and a call naming
\* campaign 1 has just been rejected
C14_Witness ==
  /\ out.req.kind = "post" /\ out.req.campaignId = 1 /\ out.resp = RespOutOfStock
  /\ campaigns[1].quantity >= 1
  /\ \A c \in DOMAIN campaigns :
       CountByValue(vouchers, campaigns[c].content) > campaigns[c].quantity

\* C15: with two campaigns of the same content, a sequential requestVoucher
\* call naming one of them is rejected with Out of stock exactly when the
\* number of stored vouchers with that value, whoever created them, is at
\* least the named campaign's quantity; otherwise it succeeds.
C15_SameContent == \A c, d \in DOMAIN campaigns : campaigns[c].content = campaigns[d].content

C15_SharedPool ==
  /\ []C15_SameContent
  /\ [][(Completed /\ out'.req.kind = "post" /\ out'.req.campaignId \in DOMAIN campaigns)
        => LET C     == campaigns[out'.req.campaignId]
               total == Cardinality({i \in DOMAIN vouchers : vouchers[i].value = C.content})
           IN
             /\ (out'.resp = RespOutOfStock) <=> (total >= C.quantity)
             /\ (out'.resp # RespOutOfStock) => (out'.resp = RespSuccess)]_vars

\* a call naming campaign 1 is rejected although the stored vouchers outnumber
\* its quantity and still fit the quantity of campaign 2
C15_Witness ==
  /\ out.req.kind = "post" /\ out.req.campaignId = 1 /\ out.resp = RespOutOfStock
  /\ campaigns[1].quantity >= 1
  /\ CountByValue(vouchers, PoolContent) > campaigns[1].quantity
  /\ CountByValue(vouchers, PoolContent) <= campaigns[2].quantity

\* C16: the response of a sequential requestVoucher call naming a campaign and
\* the vouchers it leaves are those of the same request run on a store that
\* differs at most in the status of the named campaign, whatever that status is.
C16_StatusDoesNotGate ==
  [][(Completed /\ out'.req.kind = "post" /\ out'.req.campaignId \in DOMAIN campaigns)
     => \A s \in CampaignStatuses :
          LET cid   == out'.req.campaignId
              other == [campaigns EXCEPT ![cid].status = s]
              o     == RequestVoucher(variant, other, vouchers, nextVoucherId,
                                      out'.req.body, cid)
          IN out'.resp = o.resp /\ vouchers' = o.vouchers]_vars

\* a voucher was issued through a campaign whose status is 'inactive'
C16_Witness ==
  /\ out.req.kind = "post" /\ out.resp = RespSuccess
  /\ out.req.campaignId \in DOMAIN campaigns
  /\ campaigns[out.req.campaignId].status = "inactive"
  /\ vouchers # <<>>

\* C17: every stored campaign has quantity >= 0 in every reachable state.
C17_QuantityNonNegative ==
  \A c \in DOMAIN campaigns : campaigns[c].quantity >= 0

\* C18: in every step other than an admin voucher deletion (DELETE
\* /api/admin/vouchers/:id) each stored voucher stays stored with its value,
\* so the number of vouchers of any given value does not decrease; and a
\* campaign deletion leaves all vouchers as they were.
C18_VouchersPersist ==
  /\ [][~(Completed /\ out'.req.kind = "delvoucher")
        => (/\ \A i \in DOMAIN vouchers :
                 i \in DOMAIN vouchers' /\ vouchers'[i].value = vouchers[i].value
            /\ \A v \in Contents :
                 Cardinality({i \in DOMAIN vouchers' : vouchers'[i].value = v})
                   >= Cardinality({i \in DOMAIN vouchers : vouchers[i].value = v}))]_vars
  /\ [][(Completed /\ out'.req.kind = "delcampaign")
        => (vouchers' = vouchers /\ nextVoucherId' = nextVoucherId)]_vars

\* the only campaign has just been deleted and the vouchers issued before are
\* still stored
C18_Witness ==
  /\ out.req.kind = "delcampaign" /\ out.req.id = 1
  /\ campaigns = <<>> /\ nextCampaignId > 1
  /\ vouchers # <<>>

\* C19: DELETE /api/admin/voucher-campaigns/:id answers success exactly when a
\* campaign with that id was stored and the call removed it (the other
\* campaigns and the vouchers untouched), and answers not-found (404 'Campaign
\* not found', or success:false in the MongoDB server) exactly when no such
\* campaign was stored, the store unchanged; in all four servers.
C19_NotFound == IF variant = "mongo" THEN RespNoSuccess ELSE RespCampaignGone

C19_DeleteCampaignReport ==
  [][(Completed /\ out'.req.kind = "delcampaign")
     => LET id == out'.req.id IN
          IF id \in DOMAIN campaigns
            THEN /\ out'.resp = RespSuccess
                 /\ DOMAIN campaigns' = DOMAIN campaigns \ {id}
                 /\ \A c \in DOMAIN campaigns' : campaigns'[c] = campaigns[c]
                 /\ vouchers' = vouchers
            ELSE /\ out'.resp = C19_NotFound
                 /\ StoreUnchanged]_vars

\* C20: after any interleaving of POST /api/admin/spin-wheel/:id/start and
\* POST /api/admin/spin-wheel/stop requests the spin_wheel_active collection
\* holds at most one document.
C20_AtMostOneActiveSpin == Len(spinActive) <= 1

\* C21: in the MongoDB server a POST /api/admin/spin-wheel/stop that answers
\* success leaves every spin_wheel_config document with status 'inactive'; the
\* configuration changes only through a stop, a start or a replacement; and
\* while every document is inactive GET /api/spin-wheel/active answers the
\* default rewards with activeSpinConfigId null.
C21_AllInactive(cfg) == \A d \in DOMAIN cfg : cfg[d].status = "inactive"

C21_StopStopsSpin ==
  /\ [][(Completed /\ out'.req.kind = "spinstop" /\ out'.resp.success = "true")
        => C21_AllInactive(spinConfig')]_vars
  /\ [][(spinConfig' # spinConfig)
        => \/ Completed /\ out'.req.kind \in {"spinstop", "spinstartall", "spinreplace"}
           \/ \E p \in Procs : req[p].kind = "spinreplace" /\ pc'[p] # pc[p]]_vars
  /\ [][(Completed /\ out'.req.kind = "spinactive" /\ C21_AllInactive(spinConfig))
        => (/\ out'.resp.activeSpinConfigId = NoId
            /\ out'.resp.rows = DefaultPrizes)]_vars

\* C22: provided each store call eventually returns or fails, every
\* requestVoucher call eventually completes; its response is success, Out of
\* stock, Campaign not found or a store error; the step that answers ends the
\* handler and no other step of a handler in flight sends anything (exactly
\* one response); and vouchers are inserted only by a step that answers
\* success (never after a rejection).
C22_Responses ==
  {RespSuccess, RespOutOfStock, RespNotFound} \cup {RespStoreError(m) : m \in StoreMessages}

C22_CompletesWithOneResponse ==
  /\ \A p \in 1..NumProcs : (pc[p] # "idle") ~> (pc[p] = "idle")
  /\ [][(Completed /\ out'.req.kind = "post") => out'.resp \in C22_Responses]_vars
  /\ [][(Completed /\ out'.req.kind = "post" /\ variant # "bsqlite")
        => \E p \in Procs :
             /\ pc[p] # "idle" /\ req[p] = out'.req
             /\ pc'[p] = "idle" /\ req'[p] = NoReq]_vars
  /\ [][\A p \in Procs :
         (pc[p] # "idle" /\ pc'[p] # "idle" /\ pc'[p] # pc[p]) => out' = NoOut]_vars
  /\ [][(vouchers' # vouchers)
        => (Completed /\ out'.req.kind = "post" /\ out'.resp = RespSuccess)]_vars

=============================================================================
